---- MODULE Spec2Model ----
(***************************************************************************)
(* youtube-helper: the analysis handler (src/app/api/analyze/route.ts) and *)
(* the upload form (src/app/page.tsx).                                     *)
(*                                                                         *)
(* Texts are sequences of one-character strings.  JSON values are tagged   *)
(* records [t, v]:                                                         *)
(*   null  [t |-> "null"]               bool [t |-> "bool", b |-> TRUE]    *)
(*   num   [t |-> "num",  n |-> 12]     str  [t |-> "str",  s |-> chars]   *)
(*   arr   [t |-> "arr",  a |-> <<values>>]                                *)
(*   obj   [t |-> "obj",  o |-> function from keys (chars) to values]      *)
(***************************************************************************)
EXTENDS Integers, Sequences, FiniteSets, TLC

----------------------------------------------------------------------------
(* JSON values *)

JNull == [t |-> "null"]
JBool(b) == [t |-> "bool", b |-> b]
JNum(n) == [t |-> "num", n |-> n]
JStr(s) == [t |-> "str", s |-> s]
JArr(a) == [t |-> "arr", a |-> a]
JObj(f) == [t |-> "obj", o |-> f]

(* The value JavaScript calls undefined (a missing property). *)
Undefined == [t |-> "undefined"]

Range(f) == {f[i] : i \in DOMAIN f}
Min(a, b) == IF a < b THEN a ELSE b
Max(a, b) == IF a > b THEN a ELSE b

----------------------------------------------------------------------------
(* JSON.parse, on the JSON subset whose numbers are plain integers and     *)
(* whose strings hold no escape sequences.                                 *)

WS == {" ", "\n"}
Digits == {"0", "1", "2", "3", "4", "5", "6", "7", "8", "9"}

DigitVal(c) ==
  CASE c = "0" -> 0 [] c = "1" -> 1 [] c = "2" -> 2 [] c = "3" -> 3
    [] c = "4" -> 4 [] c = "5" -> 5 [] c = "6" -> 6 [] c = "7" -> 7
    [] c = "8" -> 8 [] c = "9" -> 9

ParseFail == [ok |-> FALSE, val |-> Undefined, pos |-> 0]
ParseOk(val, pos) == [ok |-> TRUE, val |-> val, pos |-> pos]

(* First index >= i of s that holds no whitespace (Len(s) + 1 if none). *)
RECURSIVE SkipWs(_, _)
SkipWs(s, i) ==
  IF i <= Len(s) /\ s[i] \in WS THEN SkipWs(s, i + 1) ELSE i

(* s[i] is the opening quote: the string ends at the next quote; a raw     *)
(* line break inside a string is a syntax error.                           *)
RECURSIVE ScanString(_, _, _)
ScanString(s, i, acc) ==
  IF i > Len(s) THEN ParseFail
  ELSE IF s[i] = "\"" THEN ParseOk(JStr(acc), i + 1)
  ELSE IF s[i] = "\n" THEN ParseFail
  ELSE ScanString(s, i + 1, Append(acc, s[i]))

RECURSIVE ScanDigits(_, _, _)
ScanDigits(s, i, acc) ==
  IF i <= Len(s) /\ s[i] \in Digits
    THEN ScanDigits(s, i + 1, 10 * acc + DigitVal(s[i]))
    ELSE ParseOk(JNum(acc), i)

(* int = "0" | [1-9][0-9]* , with an optional leading minus sign. *)
ParseNumber(s, i) ==
  LET neg == s[i] = "-"
      j == IF neg THEN i + 1 ELSE i
  IN IF j > Len(s) \/ s[j] \notin Digits THEN ParseFail
     ELSE IF s[j] = "0" THEN ParseOk(JNum(0), j + 1)
     ELSE LET r == ScanDigits(s, j, 0)
          IN ParseOk(JNum(IF neg THEN 0 - r.val.n ELSE r.val.n), r.pos)

ParseLiteral(s, i, word, val) ==
  IF i + Len(word) - 1 <= Len(s) /\ SubSeq(s, i, i + Len(word) - 1) = word
    THEN ParseOk(val, i + Len(word))
    ELSE ParseFail

W_null == <<"n", "u", "l", "l">>
W_true == <<"t", "r", "u", "e">>
W_false == <<"f", "a", "l", "s", "e">>

(* Adds or overrides one member: a repeated key keeps its last value. *)
PutMember(f, k, val) ==
  [x \in (DOMAIN f) \cup {k} |-> IF x = k THEN val ELSE f[x]]

RECURSIVE ParseValue(_, _)
RECURSIVE ElementLoop(_, _, _)
RECURSIVE MemberLoop(_, _, _)

(* The reading of the elements of an array, or of the members of an        *)
(* object: pos is the index of the next element (member), acc what was     *)
(* read so far; done once the closing bracket was read or the text proved  *)
(* malformed (ok = FALSE).                                                 *)
LoopStart(pos) == [ok |-> TRUE, done |-> FALSE, pos |-> pos, acc |-> <<>>]
LoopFail == [ok |-> FALSE, done |-> TRUE, pos |-> 0, acc |-> <<>>]
LoopOn(pos, acc) == [ok |-> TRUE, done |-> FALSE, pos |-> pos, acc |-> acc]
LoopEnd(pos, acc) == [ok |-> TRUE, done |-> TRUE, pos |-> pos, acc |-> acc]

(* Reads one element and the comma or closing bracket after it. *)
ElementStep(s, st) ==
  LET r == ParseValue(s, st.pos)
      j == SkipWs(s, r.pos)
  IN CASE ~r.ok -> LoopFail
       [] r.ok /\ j > Len(s) -> LoopFail
       [] r.ok /\ j <= Len(s) /\ s[j] = "," -> LoopOn(SkipWs(s, j + 1), Append(st.acc, r.val))
       [] r.ok /\ j <= Len(s) /\ s[j] = "]" -> LoopEnd(j + 1, Append(st.acc, r.val))
       [] OTHER -> LoopFail

(* At most n steps from st, the first half of them and then the rest. *)
ElementLoop(s, st, n) ==
  IF st.done \/ n = 0 THEN st
  ELSE IF n = 1 THEN ElementStep(s, st)
  ELSE LET half == ElementLoop(s, st, n \div 2)
       IN ElementLoop(s, half, n - (n \div 2))

(* Reads one member, "key": value, and the comma or closing brace after it. *)
MemberStep(s, st) ==
  LET quoted == st.pos <= Len(s) /\ s[st.pos] = "\""
      k == ScanString(s, st.pos + 1, <<>>)
      c == SkipWs(s, k.pos)
      colon == quoted /\ k.ok /\ c <= Len(s) /\ s[c] = ":"
      r == ParseValue(s, SkipWs(s, c + 1))
      j == SkipWs(s, r.pos)
      read == colon /\ r.ok /\ j <= Len(s)
  IN CASE read /\ s[j] = "," -> LoopOn(SkipWs(s, j + 1), PutMember(st.acc, k.val.s, r.val))
       [] read /\ s[j] = "}" -> LoopEnd(j + 1, PutMember(st.acc, k.val.s, r.val))
       [] OTHER -> LoopFail

MemberLoop(s, st, n) ==
  IF st.done \/ n = 0 THEN st
  ELSE IF n = 1 THEN MemberStep(s, st)
  ELSE LET half == MemberLoop(s, st, n \div 2)
       IN MemberLoop(s, half, n - (n \div 2))

(* The elements from index i on; fewer than Len(s) of them fit the text. *)
ParseElements(s, i) ==
  LET st == ElementLoop(s, LoopStart(i), Len(s))
  IN IF st.ok /\ st.done THEN ParseOk(JArr(st.acc), st.pos) ELSE ParseFail

ParseMembers(s, i) ==
  LET st == MemberLoop(s, LoopStart(i), Len(s))
  IN IF st.ok /\ st.done THEN ParseOk(JObj(st.acc), st.pos) ELSE ParseFail

(* i is the index of the first character of a value. *)
ParseValue(s, i) ==
  IF i > Len(s) THEN ParseFail
  ELSE CASE s[i] = "{" ->
              LET j == SkipWs(s, i + 1)
              IN IF j <= Len(s) /\ s[j] = "}" THEN ParseOk(JObj(<<>>), j + 1)
                 ELSE ParseMembers(s, j)
         [] s[i] = "[" ->
              LET j == SkipWs(s, i + 1)
              IN IF j <= Len(s) /\ s[j] = "]" THEN ParseOk(JArr(<<>>), j + 1)
                 ELSE ParseElements(s, j)
         [] s[i] = "\"" -> ScanString(s, i + 1, <<>>)
         [] s[i] \in Digits \cup {"-"} -> ParseNumber(s, i)
         [] s[i] = "n" -> ParseLiteral(s, i, W_null, JNull)
         [] s[i] = "t" -> ParseLiteral(s, i, W_true, JBool(TRUE))
         [] s[i] = "f" -> ParseLiteral(s, i, W_false, JBool(FALSE))
         [] OTHER -> ParseFail

(* JSON.parse(text): the whole text is one value between optional          *)
(* whitespace; anything else throws a SyntaxError (ok = FALSE).            *)
JSONParse(s) ==
  LET r == ParseValue(s, SkipWs(s, 1))
  IN IF r.ok /\ SkipWs(s, r.pos) > Len(s)
       THEN [ok |-> TRUE, val |-> r.val]
       ELSE [ok |-> FALSE, val |-> Undefined]

----------------------------------------------------------------------------
(* parseJsonResponse (route.ts 44-54) *)

IndexesOf(s, c) == {i \in 1..Len(s) : s[i] = c}
SetMin(S) == CHOOSE x \in S : \A y \in S : x <= y
SetMax(S) == CHOOSE x \in S : \A y \in S : x >= y

NoMatch == [found |-> FALSE, text |-> <<>>]

(* text.match(/\{[\s\S]*\}/): the leftmost match starts at the first "{";  *)
(* the greedy [\s\S]* then runs to the last "}" of the text.  No match     *)
(* when no "}" follows the first "{".                                      *)
MatchBraces(text) ==
  LET opens == IndexesOf(text, "{")
      closes == IndexesOf(text, "}")
  IN IF opens = {} \/ closes = {} THEN NoMatch
     ELSE IF SetMax(closes) < SetMin(opens) THEN NoMatch
     ELSE [found |-> TRUE, text |-> SubSeq(text, SetMin(opens), SetMax(closes))]

(* ok = FALSE stands for the SyntaxError the function throws. *)
parseJsonResponse(text) ==
  LET direct == JSONParse(text)
  IN IF direct.ok THEN direct
     ELSE LET match == MatchBraces(text)
          IN IF match.found THEN JSONParse(match.text)
             ELSE [ok |-> FALSE, val |-> Undefined]

----------------------------------------------------------------------------
(* Sanitization (route.ts 130-135) *)

TITLES_MAX == 5
TAGS_MAX == 30
THUMBNAILS_MAX == 3

K_titles == <<"t", "i", "t", "l", "e", "s">>
K_description == <<"d", "e", "s", "c", "r", "i", "p", "t", "i", "o", "n">>
K_tags == <<"t", "a", "g", "s">>
K_thumbnails == <<"t", "h", "u", "m", "b", "n", "a", "i", "l", "s">>

(* Reading a property of null or undefined throws a TypeError. *)
CanReadProps(val) == val.t \notin {"null", "undefined"}

(* val.key for the four keys above: only an object holds them. *)
GetProp(val, key) ==
  IF val.t = "obj" /\ key \in DOMAIN val.o THEN val.o[key] ELSE Undefined

IsArray(val) == val.t = "arr"
IsString(val) == val.t = "str"

(* Array.prototype.slice(start, end) on a 1-based sequence. *)
Slice(a, start, end) ==
  LET len == Len(a)
      k == IF start < 0 THEN Max(len + start, 0) ELSE Min(start, len)
      final == IF end < 0 THEN Max(len + end, 0) ELSE Min(end, len)
      count == Max(final - k, 0)
  IN [i \in 1..count |-> a[k + i]]

(* Variant: the slice starts at index 1 instead of 0. *)
SanitizeList_FromOne(val, limit) ==
  IF IsArray(val) THEN JArr(Slice(val.a, 1, limit)) ELSE JArr(<<>>)

SanitizeList(val, limit) ==
  IF IsArray(val) THEN JArr(Slice(val.a, 0, limit)) ELSE JArr(<<>>)

SanitizeText(val) ==
  IF IsString(val) THEN val ELSE JStr(<<>>)

safePayload(payload) ==
  [titles |-> SanitizeList(GetProp(payload, K_titles), TITLES_MAX),
   description |-> SanitizeText(GetProp(payload, K_description)),
   tags |-> SanitizeList(GetProp(payload, K_tags), TAGS_MAX),
   thumbnails |-> SanitizeList(GetProp(payload, K_thumbnails), THUMBNAILS_MAX)]

----------------------------------------------------------------------------
(* Requests, files and the scratch directory (route.ts 24-42, 65-72) *)

Lower == {"a", "b", "c", "d", "e", "f", "g", "h", "i", "j", "k", "l", "m",
          "n", "o", "p", "q", "r", "s", "t", "u", "v", "w", "x", "y", "z"}
Upper == {"A", "B", "C", "D", "E", "F", "G", "H", "I", "J", "K", "L", "M",
          "N", "O", "P", "Q", "R", "S", "T", "U", "V", "W", "X", "Y", "Z"}

(* The characters the class [\w.-] holds. *)
SafeChars == Lower \cup Upper \cup Digits \cup {"_", ".", "-"}

(* name.replace(/[^\w.-]+/g, "_"): every maximal run of other characters   *)
(* becomes one underscore.  inRun: the previous character was in a run.    *)
RECURSIVE ReplaceUnsafe(_, _, _, _)
ReplaceUnsafe(name, i, acc, inRun) ==
  IF i > Len(name) THEN acc
  ELSE IF name[i] \in SafeChars THEN ReplaceUnsafe(name, i + 1, Append(acc, name[i]), FALSE)
  ELSE IF inRun THEN ReplaceUnsafe(name, i + 1, acc, TRUE)
  ELSE ReplaceUnsafe(name, i + 1, Append(acc, "_"), TRUE)

safeName(name) == ReplaceUnsafe(name, 1, <<>>, FALSE)

TmpDir == <<"/", "t", "m", "p">>
TmpPrefix == <<"y", "t", "-", "h", "e", "l", "p", "e", "r", "-">>

(* path.join("/tmp", `yt-helper-${uuid}-${safeName}`) *)
TempPathOf(uuid, name) ==
  TmpDir \o <<"/">> \o TmpPrefix \o uuid \o <<"-">> \o safeName(name)

(* An entry of the multipart form: none (formData.get gives null), a text  *)
(* field, or a File, whose bytes are the sequence of the chunks its stream *)
(* delivers.                                                               *)
NoEntry == [kind |-> "none"]
TextEntry(text) == [kind |-> "text", text |-> text]
FileEntry(name, type, bytes) ==
  [kind |-> "file", name |-> name, type |-> type, bytes |-> bytes]

(* Variant: !videoFile, which lets a text field through. *)
IsFile_Truthy(entry) == entry.kind # "none"

(* videoFile instanceof File *)
IsFile(entry) == entry.kind = "file"

(* String.prototype.trim on the whitespace of this alphabet. *)
RECURSIVE TrimEnd(_)
TrimEnd(s) ==
  IF Len(s) > 0 /\ s[Len(s)] \in WS THEN TrimEnd(SubSeq(s, 1, Len(s) - 1)) ELSE s

Trim(s) ==
  LET i == SkipWs(s, 1) IN TrimEnd(SubSeq(s, i, Len(s)))

ObjectFile == <<"[", "o", "b", "j", "e", "c", "t", " ", "F", "i", "l", "e", "]">>

(* String(formData.get("context") ?? "").trim() *)
ContextOf(entry) ==
  CASE entry.kind = "none" -> <<>>
    [] entry.kind = "text" -> Trim(entry.text)
    [] entry.kind = "file" -> ObjectFile

(* formData.getAll("images").filter(Boolean): an empty text field is       *)
(* dropped, every other entry is kept (a File is always truthy).           *)
FilterBoolean(entries) ==
  SelectSeq(entries, LAMBDA e : ~(e.kind = "text" /\ e.text = <<>>))

(* !apiKey: the variable is unset, or set to the empty string. *)
KeyUnset == "<unset>"

(* Variant: apiKey === undefined, which lets the empty string through. *)
HasKey_UnsetOnly(key) == key # KeyUnset

HasKey(key) == key # KeyUnset /\ key # ""

(* fileToInlinePart: a text entry has no arrayBuffer method (TypeError). *)
CanInline(entry) == entry.kind = "file"
fileToInlinePart(file) ==
  [inlineData |-> [data |-> [base64 |-> file.bytes],
                   mimeType |-> IF file.type = "" THEN "image/jpeg" ELSE file.type]]

NoneProvided == <<"N", "o", "n", "e", " ", "p", "r", "o", "v", "i", "d", "e", "d", ".">>

(* The one varying slot of the prompt: ${context || "None provided."} *)
PromptContext(context) == IF context = <<>> THEN NoneProvided ELSE context

MissingKeyError == "Missing GEMINI_API_KEY environment variable."
VideoRequiredError == "Video file is required."

NoResponse == [status |-> 0]
ErrorResponse(status, message) == [status |-> status, body |-> [error |-> message]]
OkResponse(payload) == [status |-> 200, body |-> payload]

----------------------------------------------------------------------------
(* Bounds and the inputs drawn from them *)

(* Lists in model responses run up to their limit plus MaxOver elements. *)
MaxOver == 2

Q == <<"\"">>
Str(chars) == Q \o chars \o Q

DigitChar(d) ==
  CASE d = 0 -> "0" [] d = 1 -> "1" [] d = 2 -> "2" [] d = 3 -> "3"
    [] d = 4 -> "4" [] d = 5 -> "5" [] d = 6 -> "6" [] d = 7 -> "7"
    [] d = 8 -> "8" [] d = 9 -> "9"

RECURSIVE IntChars(_)
IntChars(n) ==
  IF n < 10 THEN <<DigitChar(n)>> ELSE Append(IntChars(n \div 10), DigitChar(n % 10))

(* texts[lo], ..., texts[hi] joined by commas, by halves. *)
RECURSIVE JoinRange(_, _, _)
JoinRange(texts, lo, hi) ==
  IF lo > hi THEN <<>>
  ELSE IF lo = hi THEN texts[lo]
  ELSE LET mid == (lo + hi) \div 2
       IN JoinRange(texts, lo, mid) \o <<",">> \o JoinRange(texts, mid + 1, hi)

(* The texts joined by commas. *)
Join(texts) == JoinRange(texts, 1, Len(texts))

(* ["c1","c2",...,"cn"]: n distinct strings, so that order shows. *)
ListText(c, n) ==
  <<"[">> \o Join([i \in 1..n |-> Str(<<c>> \o IntChars(i))]) \o <<"]">>

(* The JSON object with the given members; a member whose text is empty is *)
(* left out.                                                               *)
ObjText(members) ==
  LET present == SelectSeq(members, LAMBDA m : m[2] # <<>>)
  IN <<"{">> \o Join([i \in 1..Len(present) |->
                        Str(present[i][1]) \o <<":">> \o present[i][2]]) \o <<"}">>

PayloadText(t, d, g, h) ==
  ObjText(<<<<K_titles, t>>, <<K_description, d>>, <<K_tags, g>>, <<K_thumbnails, h>>>>)

Absent == <<>>
NumText == <<"4", "2">>
StrText == Str(<<"s">>)
DescText == Str(<<"A", " ", "d", "e", "s", "c", ".">>)
(* A list holding a number, a null and a string. *)
MixedListText == <<"[", "7", ",">> \o W_null \o <<",">> \o StrText \o <<"]">>

Here == <<"H", "e", "r", "e", " ", "i", "s", " ", "t", "h", "e", " ", "r", "e", "s", "u", "l", "t", ":", " ">>
Thanks == <<" ", "T", "h", "a", "n", "k", "s", "!">>
FenceOpen == <<"~", "~", "~", "j", "s", "o", "n", "\n">>
FenceClose == <<"\n", "~", "~", "~">>
Smiley == <<" ", ":", "}">>
SeeBraces == <<"s", "e", "e", " ", "{", "x", "}", " ">>
Oops == <<"o", "o", "p", "s">>

(* The lengths of the spec's truncation example: 8 titles, 40 tags, 5 thumbnails. *)
ExampleText == PayloadText(ListText("t", 8), DescText, ListText("g", 40), ListText("h", 5))
SmallText == PayloadText(ListText("t", 2), DescText, ListText("g", 3), ListText("h", 1))

(* The response texts the generation call may return to the handler. *)
HandlerTexts ==
  { SmallText, ExampleText,
    PayloadText(ListText("t", TITLES_MAX + MaxOver), Absent, NumText, StrText),
    PayloadText(MixedListText, NumText, ListText("g", 1), Absent),
    Here \o SmallText \o Thanks,
    FenceOpen \o SmallText \o FenceClose,
    Here \o SmallText \o Smiley,
    W_null, NumText, <<"[", "]">>, <<"{", "}">>, Oops }

VideoName == <<"m", "y", " ", "c", "l", "i", "p", " ", "(", "1", ")", ".", "m", "p", "4">>

VideoEntries ==
  { NoEntry, TextEntry(<<"v">>),
    FileEntry(VideoName, "video/mp4", <<"V", "1">>), FileEntry(<<>>, "", <<"V", "2">>),
    FileEntry(<<"e">>, "video/webm", <<>>) }

ContextEntries ==
  { NoEntry, TextEntry(<<" ", "\n">>), TextEntry(<<" ", "f", "u", "n", " ">>) }

ImageEntries ==
  { <<>>, <<FileEntry(<<"a", ".", "p", "n", "g">>, "image/png", <<"I", "1">>)>>,
    <<TextEntry(<<>>), FileEntry(<<"b">>, "", <<"I", "2">>)>>,
    <<TextEntry(<<"x">>)>> }

(* A body request.formData() cannot read carries no entries. *)
Requests ==
  { [body |-> "multipart", video |-> v, context |-> c, images |-> i] :
      v \in VideoEntries, c \in ContextEntries, i \in ImageEntries }
  \cup { [body |-> "malformed", video |-> NoEntry, context |-> NoEntry, images |-> <<>>] }

ApiKeys == {KeyUnset, "", "secret"}

(* crypto.randomUUID() draws from these; files of other requests carry     *)
(* another identifier.                                                     *)
UUIDs == {<<"u", "1">>, <<"u", "2">>}
OtherFile == [path |-> TempPathOf(<<"u", "0">>, <<"o", ".", "m", "p", "4">>), bytes |-> <<"V", "0">>]
Scratches == {{}, {OtherFile}}

----------------------------------------------------------------------------
VARIABLES
  (* the analysis handler, one invocation of POST *)
  apiKey,        \* process.env.GEMINI_API_KEY
  request,       \* the request
  scratch,       \* the files of /tmp: records [path, bytes]
  scratch0,      \* the files of /tmp when the invocation began
  remote,        \* the files the external file store holds
  pc,            \* the handler's position
  form,          \* videoFile, context, imageFiles
  tempPath,
  upload,
  inlineImages,
  genRequest,    \* what the generation call was given
  text,          \* result.response.text()
  response,      \* the response POST returned, NoResponse if none
  thrown,        \* the step whose exception left POST, "" if none
  calls,         \* the I/O operations attempted, in order
  (* parseJsonResponse and the sanitization, applied to one text *)
  fnInput, fnPc, fnParsed, fnSafe,
  (* the upload form *)
  videoFile, imageFiles, context, result, isLoading, error,
  inflight,      \* the submission handleAnalyze is in the middle of, NoFetch if none
  settled        \* how the last fetch ended, NoFetch if none has

hvars == <<apiKey, request, scratch, scratch0, remote, pc, form, tempPath, upload,
           inlineImages, genRequest, text, response, thrown, calls>>
fnvars == <<fnInput, fnPc, fnParsed, fnSafe>>
uivars == <<videoFile, imageFiles, context, result, isLoading, error, inflight,
            settled>>
vars == <<hvars, fnvars, uivars>>

NoForm == [videoFile |-> NoEntry, context |-> <<>>, imageFiles |-> <<>>]
NoUpload == [ok |-> FALSE]
NoGenRequest == [sent |-> FALSE]

----------------------------------------------------------------------------
(* POST (route.ts 56-138) *)

HandlerInit ==
  /\ apiKey \in ApiKeys
  /\ request \in Requests
  /\ scratch0 \in Scratches
  /\ scratch = scratch0
  /\ remote = {}
  /\ pc = "start"
  /\ form = NoForm
  /\ tempPath = <<>>
  /\ upload = NoUpload
  /\ inlineImages = <<>>
  /\ genRequest = NoGenRequest
  /\ text = <<>>
  /\ response = NoResponse
  /\ thrown = ""
  /\ calls = <<>>

HandlerIdle ==
  /\ apiKey = KeyUnset
  /\ request = [body |-> "malformed", video |-> NoEntry, context |-> NoEntry, images |-> <<>>]
  /\ scratch0 = {}
  /\ scratch = {}
  /\ remote = {}
  /\ pc = "idle"
  /\ form = NoForm
  /\ tempPath = <<>>
  /\ upload = NoUpload
  /\ inlineImages = <<>>
  /\ genRequest = NoGenRequest
  /\ text = <<>>
  /\ response = NoResponse
  /\ thrown = ""
  /\ calls = <<>>

(* The exception of the named step leaves POST: no response is returned. *)
Throw(step) ==
  /\ thrown' = step
  /\ pc' = "done"
  /\ UNCHANGED response

Return(resp) ==
  /\ response' = resp
  /\ pc' = "done"
  /\ UNCHANGED thrown

(* route.ts 57-63 *)
CheckApiKey ==
  /\ pc = "start"
  /\ IF ~HasKey(apiKey)
       THEN Return(ErrorResponse(500, MissingKeyError))
       ELSE pc' = "formData" /\ UNCHANGED <<response, thrown>>
  /\ UNCHANGED <<apiKey, request, scratch, scratch0, remote, form, tempPath, upload,
                 inlineImages, genRequest, text, calls>>
  /\ UNCHANGED <<fnvars, uivars>>

(* route.ts 65-72 *)
ReadFormData ==
  /\ pc = "formData"
  /\ calls' = Append(calls, "formData")
  /\ IF request.body # "multipart"
       THEN Throw("formData") /\ UNCHANGED form
       ELSE /\ form' = [videoFile |-> request.video,
                        context |-> ContextOf(request.context),
                        imageFiles |-> FilterBoolean(request.images)]
            /\ IF ~IsFile(request.video)
                 THEN Return(ErrorResponse(400, VideoRequiredError))
                 ELSE pc' = "write" /\ UNCHANGED <<response, thrown>>
  /\ UNCHANGED <<apiKey, request, scratch, scratch0, remote, tempPath, upload,
                 inlineImages, genRequest, text>>
  /\ UNCHANGED <<fnvars, uivars>>

(* toTempFile (route.ts 24-32), called at line 74 outside the try block.   *)
(* The pipeline writes the chunks of the file in order.  It may fail       *)
(* before the file is opened, or once the file is open and n of its chunks *)
(* are written, any number up to all of them (the source stream fails      *)
(* before it ends, or the file fails to close): the file then stays,       *)
(* holding those n.                                                        *)
WriteTempFile ==
  /\ pc = "write"
  /\ calls' = Append(calls, "write")
  /\ \E uuid \in UUIDs, outcome \in {"written", "failed", "unopened"},
        n \in 0..Len(form.videoFile.bytes) :
       LET path == TempPathOf(uuid, form.videoFile.name)
           file == [path |-> path, bytes |-> SubSeq(form.videoFile.bytes, 1, n)]
       IN /\ outcome = "written" => n = Len(form.videoFile.bytes)
          /\ outcome = "unopened" => n = 0
          /\ tempPath' = path
          /\ scratch' = IF outcome = "unopened" THEN scratch ELSE scratch \cup {file}
          /\ IF outcome = "written"
               THEN pc' = "upload" /\ UNCHANGED <<response, thrown>>
               ELSE Throw("write")
  /\ UNCHANGED <<apiKey, request, scratch0, remote, form, upload, inlineImages,
                 genRequest, text>>
  /\ UNCHANGED <<fnvars, uivars>>

(* fileManager.uploadFile(tempPath, ...) inside try (route.ts 77-82): what *)
(* is stored is what the file at tempPath holds.                           *)
UploadFile ==
  /\ pc = "upload"
  /\ calls' = Append(calls, "upload")
  /\ \E ok \in BOOLEAN :
       LET mimeType == IF form.videoFile.type = "" THEN "video/mp4" ELSE form.videoFile.type
           displayName == IF form.videoFile.name = <<>> THEN "youtube-helper-video"
                          ELSE form.videoFile.name
           onDisk == CHOOSE f \in scratch : f.path = tempPath
           stored == [displayName |-> displayName, mimeType |-> mimeType,
                      bytes |-> onDisk.bytes]
       IN IF ok
            THEN /\ remote' = remote \cup {stored}
                 /\ upload' = [ok |-> TRUE,
                               file |-> [uri |-> stored.bytes, mimeType |-> mimeType]]
            ELSE /\ remote' = remote
                 /\ upload' = NoUpload
  /\ pc' = "unlink"
  /\ UNCHANGED <<apiKey, request, scratch, scratch0, form, tempPath, inlineImages,
                 genRequest, text, response, thrown>>
  /\ UNCHANGED <<fnvars, uivars>>

(* Variant: catch in place of finally, so that a failed upload is          *)
(* swallowed with the failed unlink and POST goes on.                      *)
UnlinkTemp_Swallow ==
  /\ pc = "unlink"
  /\ calls' = Append(calls, "unlink")
  /\ \E removed \in BOOLEAN :
       scratch' = IF removed THEN {f \in scratch : f.path # tempPath} ELSE scratch
  /\ pc' = "inline"
  /\ UNCHANGED <<apiKey, request, scratch0, remote, form, tempPath, upload,
                 inlineImages, genRequest, text, response, thrown>>
  /\ UNCHANGED <<fnvars, uivars>>

(* finally { await unlink(tempPath).catch(() => null) } (route.ts 83-85):  *)
(* a failed unlink is swallowed and leaves the file; the exception of a    *)
(* failed upload then goes on out of POST.                                 *)
UnlinkTemp ==
  /\ pc = "unlink"
  /\ calls' = Append(calls, "unlink")
  /\ \E removed \in BOOLEAN :
       scratch' = IF removed THEN {f \in scratch : f.path # tempPath} ELSE scratch
  /\ IF upload.ok
       THEN pc' = "inline" /\ UNCHANGED <<response, thrown>>
       ELSE Throw("upload")
  /\ UNCHANGED <<apiKey, request, scratch0, remote, form, tempPath, upload,
                 inlineImages, genRequest, text>>
  /\ UNCHANGED <<fnvars, uivars>>

(* Promise.all(imageFiles.map(fileToInlinePart)) (route.ts 89-91) *)
InlineImages ==
  /\ pc = "inline"
  /\ IF \A i \in 1..Len(form.imageFiles) : CanInline(form.imageFiles[i])
       THEN /\ inlineImages' = [i \in 1..Len(form.imageFiles) |->
                                  fileToInlinePart(form.imageFiles[i])]
            /\ pc' = "generate"
            /\ UNCHANGED <<response, thrown>>
       ELSE Throw("inline") /\ UNCHANGED inlineImages
  /\ UNCHANGED <<apiKey, request, scratch, scratch0, remote, form, tempPath, upload,
                 genRequest, text, calls>>
  /\ UNCHANGED <<fnvars, uivars>>

(* model.generateContent and result.response.text() (route.ts 105-128) *)
GenerateContent ==
  /\ pc = "generate"
  /\ calls' = Append(calls, "generate")
  /\ genRequest' = [sent |-> TRUE,
                    prompt |-> PromptContext(form.context),
                    fileUri |-> upload.file.uri,
                    mimeType |-> upload.file.mimeType,
                    inline |-> inlineImages]
  /\ \/ Throw("generate") /\ UNCHANGED text
     \/ /\ text' \in HandlerTexts
        /\ pc' = "parse"
        /\ UNCHANGED <<response, thrown>>
  /\ UNCHANGED <<apiKey, request, scratch, scratch0, remote, form, tempPath, upload,
                 inlineImages>>
  /\ UNCHANGED <<fnvars, uivars>>

(* route.ts 128-137: parse, sanitize, answer 200 *)
Respond ==
  /\ pc = "parse"
  /\ LET parsed == parseJsonResponse(text)
     IN IF ~parsed.ok THEN Throw("parse")
        ELSE IF ~CanReadProps(parsed.val) THEN Throw("sanitize")
        ELSE Return(OkResponse(safePayload(parsed.val)))
  /\ UNCHANGED <<apiKey, request, scratch, scratch0, remote, form, tempPath, upload,
                 inlineImages, genRequest, text, calls>>
  /\ UNCHANGED <<fnvars, uivars>>

HandlerNext ==
  \/ CheckApiKey
  \/ ReadFormData
  \/ WriteTempFile
  \/ UploadFile
  \/ UnlinkTemp
  \/ InlineImages
  \/ GenerateContent
  \/ Respond

----------------------------------------------------------------------------
(* parseJsonResponse and the sanitization as functions of one text *)

NestedText ==
  <<"{">> \o Str(<<"a">>) \o <<":", "{">> \o Str(<<"b">>) \o <<":", "1", "}", ",">>
    \o Str(K_titles) \o <<":">> \o ListText("t", 1) \o <<"}">>

TitleTexts ==
  {Absent, StrText, NumText, W_null, MixedListText}
    \cup {ListText("t", n) : n \in 0..(TITLES_MAX + MaxOver)}
TagTexts ==
  {Absent, NumText}
    \cup {ListText("g", n) : n \in {0, 1, TAGS_MAX - 1} \cup (TAGS_MAX..(TAGS_MAX + MaxOver))}
ThumbnailTexts ==
  {Absent, StrText, MixedListText}
    \cup {ListText("h", n) : n \in 0..(THUMBNAILS_MAX + MaxOver)}
DescriptionTexts ==
  {Absent, DescText, Str(<<>>), NumText, ListText("d", 1)}

PayloadTexts ==
  {PayloadText(t, d, g, h) :
     t \in TitleTexts, d \in DescriptionTexts, g \in TagTexts, h \in ThumbnailTexts}
    \cup {ExampleText}

Prefixes == {<<>>, <<" ">>, Here, FenceOpen, SeeBraces, <<"{">>, <<"[">>}
Suffixes == {<<>>, <<"\n">>, Thanks, FenceClose, Smiley, <<" ", "{", "}">>, <<"]">>}
NonObjectTexts ==
  {W_null, W_true, NumText, <<"-", "7">>, <<"0", "1">>, StrText, <<"[", "]">>,
   MixedListText, Oops, <<>>, <<"}", "{">>, <<"{">>, <<"{", "\"", "a", "\"", "}">>}

(* pre \o core \o post: a text around a core, the core alone when both     *)
(* are empty.                                                              *)
FnInputs ==
  {[pre |-> <<>>, core |-> c, post |-> <<>>] : c \in PayloadTexts \cup NonObjectTexts}
    \cup {[pre |-> a, core |-> c, post |-> b] :
            a \in Prefixes, b \in Suffixes, c \in {SmallText, NestedText, <<"{", "}">>}}

FnText(in) == in.pre \o in.core \o in.post

NoParse == [ok |-> FALSE, val |-> Undefined]
NoSafe == [titles |-> JArr(<<>>), description |-> JStr(<<>>), tags |-> JArr(<<>>),
           thumbnails |-> JArr(<<>>)]

FnInit ==
  /\ fnInput \in FnInputs
  /\ fnPc = "input"
  /\ fnParsed = NoParse
  /\ fnSafe = NoSafe

FnIdle ==
  /\ fnInput = [pre |-> <<>>, core |-> <<>>, post |-> <<>>]
  /\ fnPc = "idle"
  /\ fnParsed = NoParse
  /\ fnSafe = NoSafe

(* route.ts 128 *)
ApplyParse ==
  /\ fnPc = "input"
  /\ fnParsed' = parseJsonResponse(FnText(fnInput))
  /\ fnPc' = "parsed"
  /\ UNCHANGED <<fnInput, fnSafe>>
  /\ UNCHANGED <<hvars, uivars>>

(* route.ts 130-135; reading the fields of null throws *)
ApplySanitize ==
  /\ fnPc = "parsed"
  /\ fnParsed.ok
  /\ CanReadProps(fnParsed.val)
  /\ fnSafe' = safePayload(fnParsed.val)
  /\ fnPc' = "sanitized"
  /\ UNCHANGED <<fnInput, fnParsed>>
  /\ UNCHANGED <<hvars, uivars>>

FnNext == ApplyParse \/ ApplySanitize

----------------------------------------------------------------------------
(* The upload form (page.tsx 40-128, 240-256) *)

IMAGES_MAX_FILES == 8

(* One more file than the image dropzone takes can be dropped at once. *)
MaxDropOver == 1

(* A string of the form's state; null is JNull. *)
Msg(m) == [t |-> "str", s |-> m]

RejectedError == "Video must be MP4, MOV, or WEBM and under 500MB."
NoVideoError == "Please upload a video file."
AnalysisFailed == "Analysis failed."
SomethingWrong == "Something went wrong."

NoFetch == [kind |-> "none"]

UiVideos ==
  { FileEntry(VideoName, "video/mp4", <<"V", "1">>),
    FileEntry(<<"b", ".", "m", "o", "v">>, "video/quicktime", <<"V", "3">>) }
UiContexts == {<<>>, <<"f", "u", "n">>}
ImagesDropped(n) == [i \in 1..n |-> FileEntry(<<"i">> \o IntChars(i), "image/png", <<"I">>)]

(* The bodies a 200 response of the handler carries: POST answers 200 with *)
(* the sanitized payload only (route.ts 130-137), here that of two of the  *)
(* texts the generation call may return.                                   *)
UiTexts == {SmallText, <<"{", "}">>}
UiResults == {safePayload(parseJsonResponse(t).val) : t \in UiTexts}

(* Bodies that are no JSON: response.json() rejects with a SyntaxError. *)
EmptyBody == <<>>
HtmlBody == <<"<", "h", "t", "m", "l", ">">>
NotJsonBody == <<"n", "o", "t", " ", "j", "s", "o", "n">>
OpenBraceBody == <<"{">>
NonJsonBodies == {EmptyBody, HtmlBody, NotJsonBody, OpenBraceBody}

(* How fetch can end: a response arrived, with a status and a body that is *)
(* JSON (body, the value it parses to) or not (raw, its text); or fetch    *)
(* rejected.                                                               *)
FetchOutcomes ==
  {[kind |-> "response", status |-> 200, json |-> TRUE, body |-> d] : d \in UiResults}
    \cup {[kind |-> "response", status |-> st, json |-> JSONParse(raw).ok,
            body |-> JNull, raw |-> raw] : st \in {200, 500}, raw \in NonJsonBodies}
    \cup {[kind |-> "response", status |-> st, json |-> TRUE, body |-> [error |-> Msg(m)]] :
            st \in {400, 500}, m \in {MissingKeyError, VideoRequiredError}}
    \cup {[kind |-> "response", status |-> 500, json |-> TRUE, body |-> b] :
            b \in {JNull, [error |-> JNull], [message |-> Msg("failed")]}}
    \cup {[kind |-> "thrown", isError |-> TRUE, message |-> "Failed to fetch"],
          [kind |-> "thrown", isError |-> FALSE, message |-> ""]}

(* response.ok *)
IsOk(outcome) == outcome.kind = "response" /\ outcome.status >= 200 /\ outcome.status <= 299

(* payload?.error ?? "Analysis failed." with payload = await               *)
(* response.json().catch(() => ({})), as the message of the Error thrown.  *)
ErrorMessageOf(outcome) ==
  LET payload == IF outcome.json THEN outcome.body ELSE [none |-> JNull]
  IN IF payload # JNull /\ "error" \in DOMAIN payload /\ payload.error # JNull
       THEN payload.error.s
       ELSE AnalysisFailed

(* The message of the SyntaxError response.json() rejects with, which is   *)
(* the JavaScript engine's and names what it met in the body; these are    *)
(* the texts of V8.                                                        *)
SyntaxErrorMessage(raw) ==
  CASE raw = EmptyBody -> "Unexpected end of JSON input"
    [] raw = HtmlBody -> "Unexpected token '<', \"<html>\" is not valid JSON"
    [] raw = NotJsonBody -> "Unexpected token 'o', \"not json\" is not valid JSON"
    [] raw = OpenBraceBody -> "Expected property name or '}' in JSON at position 1"

UIInit ==
  /\ videoFile = JNull
  /\ imageFiles = <<>>
  /\ context = <<>>
  /\ result = JNull
  /\ isLoading = FALSE
  /\ error = JNull
  /\ inflight = NoFetch
  /\ settled = NoFetch

(* The video dropzone (page.tsx 48-51, 58-75): on every drop the library   *)
(* calls onDrop with the accepted files, then onDropRejected when a file   *)
(* was rejected.  With multiple: false at most one file is accepted, and   *)
(* with it, or without, files may be rejected; a drop that holds no file   *)
(* the library keeps (an empty folder) has neither.                        *)
DropVideo ==
  /\ \E accepted \in {<<>>} \cup {<<f>> : f \in UiVideos}, rejected \in BOOLEAN :
       /\ videoFile' = IF accepted = <<>> THEN JNull ELSE accepted[1]
       /\ error' = IF rejected THEN Msg(RejectedError) ELSE JNull
  /\ UNCHANGED <<imageFiles, context, result, isLoading, inflight, settled>>
  /\ UNCHANGED <<hvars, fnvars>>

(* The image dropzone (page.tsx 53-56, 77-88): more than maxFiles files    *)
(* are all rejected, and onDrop gets none.                                 *)
DropImages ==
  /\ \E n \in {0, 1} \cup (IMAGES_MAX_FILES..(IMAGES_MAX_FILES + MaxDropOver)) :
       imageFiles' = IF n > IMAGES_MAX_FILES THEN <<>> ELSE ImagesDropped(n)
  /\ error' = JNull
  /\ UNCHANGED <<videoFile, context, result, isLoading, inflight, settled>>
  /\ UNCHANGED <<hvars, fnvars>>

(* page.tsx 207 *)
ChangeContext ==
  /\ \E c \in UiContexts : context' = c /\ c # context
  /\ UNCHANGED <<videoFile, imageFiles, result, isLoading, error, inflight, settled>>
  /\ UNCHANGED <<hvars, fnvars>>

(* handleAnalyze up to await fetch (page.tsx 96-114); the button is        *)
(* disabled while isLoading (page.tsx 243).                                *)
ClickAnalyze ==
  /\ ~isLoading
  /\ IF videoFile = JNull
       THEN /\ error' = Msg(NoVideoError)
            /\ UNCHANGED <<isLoading, result, inflight>>
       ELSE /\ error' = JNull
            /\ isLoading' = TRUE
            /\ result' = JNull
            /\ inflight' = [kind |-> "fetch", video |-> videoFile, images |-> imageFiles,
                            context |-> context, response |-> NoFetch]
  /\ UNCHANGED <<videoFile, imageFiles, context, settled>>
  /\ UNCHANGED <<hvars, fnvars>>

(* await fetch resolves (page.tsx 111-114): handleAnalyze holds the        *)
(* response and goes on to read its body, await response.json() (117 or    *)
(* 121), returning to the event loop meanwhile.                            *)
FetchResolves ==
  /\ inflight.kind = "fetch"
  /\ \E o \in FetchOutcomes :
       /\ o.kind = "response"
       /\ inflight' = [inflight EXCEPT !.kind = "json", !.response = o]
  /\ UNCHANGED <<videoFile, imageFiles, context, result, isLoading, error, settled>>
  /\ UNCHANGED <<hvars, fnvars>>

(* page.tsx 121-122, 125-127: a success status and a body that parses *)
FetchSucceeds ==
  /\ inflight.kind = "json"
  /\ LET o == inflight.response
     IN /\ IsOk(o) /\ o.json
        /\ settled' = o
        /\ result' = o.body
  /\ isLoading' = FALSE
  /\ inflight' = NoFetch
  /\ UNCHANGED <<videoFile, imageFiles, context, error>>
  /\ UNCHANGED <<hvars, fnvars>>

(* Variant: setIsLoading(false) at the end of the try block instead of in  *)
(* finally, so that a failure leaves isLoading set.                        *)
FetchFails_NoFinally ==
  /\ inflight.kind = "json"
  /\ LET o == inflight.response
     IN /\ ~IsOk(o)
        /\ settled' = o
        /\ error' = Msg(ErrorMessageOf(o))
  /\ inflight' = NoFetch
  /\ UNCHANGED <<videoFile, imageFiles, context, result, isLoading>>
  /\ UNCHANGED <<hvars, fnvars>>

(* page.tsx 116-119, 123-127: a status that is no success *)
FetchFails ==
  /\ inflight.kind = "json"
  /\ LET o == inflight.response
     IN /\ ~IsOk(o)
        /\ settled' = o
        /\ error' = Msg(ErrorMessageOf(o))
  /\ isLoading' = FALSE
  /\ inflight' = NoFetch
  /\ UNCHANGED <<videoFile, imageFiles, context, result>>
  /\ UNCHANGED <<hvars, fnvars>>

(* page.tsx 123-127: await fetch rejected (111), or response.json()        *)
(* rejected on a success status (121).                                     *)
FetchThrows ==
  /\ \/ /\ inflight.kind = "fetch"
        /\ \E o \in FetchOutcomes :
             /\ o.kind = "thrown"
             /\ settled' = o
             /\ error' = IF o.isError THEN Msg(o.message) ELSE Msg(SomethingWrong)
     \/ /\ inflight.kind = "json"
        /\ LET o == inflight.response
           IN /\ IsOk(o) /\ ~o.json
              /\ settled' = o
              /\ error' = Msg(SyntaxErrorMessage(o.raw))
  /\ isLoading' = FALSE
  /\ inflight' = NoFetch
  /\ UNCHANGED <<videoFile, imageFiles, context, result>>
  /\ UNCHANGED <<hvars, fnvars>>

(* The steps by which a submission goes on to its end. *)
Settle == FetchResolves \/ FetchSucceeds \/ FetchFails \/ FetchThrows

UINext ==
  \/ DropVideo
  \/ DropImages
  \/ ChangeContext
  \/ ClickAnalyze
  \/ FetchResolves
  \/ FetchSucceeds
  \/ FetchFails
  \/ FetchThrows

----------------------------------------------------------------------------
(* The specifications *)

(* One invocation of POST. *)
Init == HandlerInit /\ FnIdle /\ UIInit
Next == HandlerNext
Spec == Init /\ [][Next]_vars

(* parseJsonResponse and the sanitization on one text. *)
InitFn == HandlerIdle /\ FnInit /\ UIInit
SpecFn == InitFn /\ [][FnNext]_vars

(* The upload form. *)
InitUI == HandlerIdle /\ FnIdle /\ UIInit
SpecUI == InitUI /\ [][UINext]_vars

----------------------------------------------------------------------------
(* Properties of POST, under Spec *)

Finished == pc = "done"
CreatedFiles == {f \in scratch : f.path = tempPath}
(* No credential is configured: the variable is unset or empty. *)
ApiKeyMissing == apiKey \in {KeyUnset, ""}
(* The form holds no video entry that is a file. *)
VideoMissing == request.body = "multipart" /\ request.video.kind \in {"none", "text"}
IsErrorBody(resp) == "error" \in DOMAIN resp.body /\ resp.body.error \in STRING
AllStrings(list) == list.t = "arr" /\ \A i \in 1..Len(list.a) : list.a[i].t = "str"
WellFormedBody(body) ==
  /\ AllStrings(body.titles)
  /\ AllStrings(body.tags)
  /\ AllStrings(body.thumbnails)
  /\ body.description.t = "str"

(* C1: once an invocation of POST has finished, by a response or by a      *)
(* failure of any step, no temporary file it created is left in the        *)
(* scratch directory.                                                      *)
C1_NoTempFileRemains == Finished => CreatedFiles = {}

(* C2: every invocation ends with one response of the three shapes (200    *)
(* with a result, 400 or 500 with an error string), and a step that fails  *)
(* after the precondition checks ends it with 500 and an error string.     *)
C2_AlwaysOneResponse ==
  Finished =>
    /\ response.status \in {200, 400, 500}
    /\ response.status \in {400, 500} => IsErrorBody(response)
    /\ thrown # "" => response.status = 500 /\ IsErrorBody(response)

(* C3: whenever the text of the model parses to a JSON value, POST answers *)
(* 200 with titles, tags and thumbnails lists of strings and description a *)
(* string.                                                                 *)
C3_ResultAlwaysWellFormed ==
  (Finished /\ "generate" \in Range(calls) /\ thrown # "generate"
     /\ parseJsonResponse(text).ok)
    => /\ response.status = 200
       /\ WellFormedBody(response.body)

(* C6: without a credential POST answers 500 with the configuration error  *)
(* and nothing else happens: no form data is read, no file is written, no  *)
(* external call is made, whatever the request holds.                      *)
C6_MissingKeyFirst ==
  ApiKeyMissing =>
    /\ calls = <<>>
    /\ scratch = scratch0
    /\ remote = {}
    /\ genRequest = NoGenRequest
    /\ Finished => response = ErrorResponse(500, MissingKeyError) /\ thrown = ""

C6_Witness ==
  /\ Finished
  /\ apiKey = ""
  /\ request.body = "multipart"
  /\ request.video = NoEntry

(* C7: with a credential and a form whose video entry is absent or a text  *)
(* field, POST answers 400 with an error string; it touches no temporary   *)
(* file and makes no external call.                                        *)
C7_MissingVideo ==
  (~ApiKeyMissing /\ VideoMissing)
    => /\ Range(calls) \subseteq {"formData"}
       /\ scratch = scratch0
       /\ remote = {}
       /\ genRequest = NoGenRequest
       /\ tempPath = <<>>
       /\ pc \in {"start", "formData", "done"}
       /\ Finished => response = ErrorResponse(400, VideoRequiredError) /\ thrown = ""

C7_Witness ==
  /\ Finished
  /\ ~ApiKeyMissing
  /\ request.video.kind = "text"
  /\ response.status = 400
  /\ scratch0 # {}

Order == <<"formData", "write", "upload", "unlink", "generate">>
IsPrefix(a, b) == Len(a) <= Len(b) /\ SubSeq(b, 1, Len(a)) = a

(* C10 as stated: the steps run once each in the fixed order; generation   *)
(* happens only after a successful upload and never while the temporary    *)
(* file exists.                                                            *)
C10_GenerateAfterFileGone ==
  /\ IsPrefix(calls, Order)
  /\ "generate" \in Range(calls) => upload.ok /\ CreatedFiles = {}

(* C10 amended: the steps run once each in the fixed order (write, upload, *)
(* one attempt to delete, generation); generation happens only after a     *)
(* successful upload and after the attempt to delete the temporary file,   *)
(* whose failure is swallowed and may leave the file.                      *)
C10_GenerateAfterUnlinkAttempt ==
  /\ IsPrefix(calls, Order)
  /\ "generate" \in Range(calls) => upload.ok /\ "unlink" \in Range(calls)
  /\ (pc \in {"inline", "generate", "parse"}) => upload.ok /\ "unlink" \in Range(calls)
  /\ ("unlink" \in Range(calls) /\ ~upload.ok) => Finished /\ thrown = "upload"

C10_Witness ==
  /\ Finished
  /\ response.status = 200
  /\ calls = Order
  /\ CreatedFiles # {}

----------------------------------------------------------------------------
(* Properties of parseJsonResponse and the sanitization, under SpecFn *)

FourKeys == {K_titles, K_description, K_tags, K_thumbnails}
Field(obj, key) == IF key \in DOMAIN obj.o THEN obj.o[key] ELSE Undefined

(* The reference: a sequence becomes its prefix of length min(n, limit),   *)
(* anything else the empty sequence.                                       *)
RefList(val, limit) ==
  IF val.t = "arr" THEN JArr(SubSeq(val.a, 1, Min(Len(val.a), limit))) ELSE JArr(<<>>)

WithinLimit(val, limit) == AllStrings(val) /\ Len(val.a) <= limit

(* All four fields present, of the right types, within the limits. *)
WellTypedWithinLimits(obj) ==
  /\ DOMAIN obj.o = FourKeys
  /\ WithinLimit(obj.o[K_titles], TITLES_MAX)
  /\ WithinLimit(obj.o[K_tags], TAGS_MAX)
  /\ WithinLimit(obj.o[K_thumbnails], THUMBNAILS_MAX)
  /\ obj.o[K_description].t = "str"

AsObject(safe) ==
  JObj([k \in FourKeys |->
          CASE k = K_titles -> safe.titles
            [] k = K_description -> safe.description
            [] k = K_tags -> safe.tags
            [] k = K_thumbnails -> safe.thumbnails])

(* C4: on every parsed payload object the sanitized titles, tags and       *)
(* thumbnails are the reference's (the prefix of length min(n, 5 / 30 / 3) *)
(* of a sequence, in order; empty for anything that is no sequence), and   *)
(* a correctly typed payload within the limits comes back unchanged.       *)
C4_SanitizeIsReference ==
  (fnPc = "sanitized" /\ fnParsed.val.t = "obj")
    => /\ fnSafe.titles = RefList(Field(fnParsed.val, K_titles), TITLES_MAX)
       /\ fnSafe.tags = RefList(Field(fnParsed.val, K_tags), TAGS_MAX)
       /\ fnSafe.thumbnails = RefList(Field(fnParsed.val, K_thumbnails), THUMBNAILS_MAX)
       /\ WellTypedWithinLimits(fnParsed.val) => AsObject(fnSafe) = fnParsed.val

(* The truncation example: 8 titles, 40 tags, 5 thumbnails give 5, 30, 3. *)
C4_Witness ==
  /\ fnPc = "sanitized"
  /\ fnInput.core = ExampleText
  /\ fnInput.pre = <<>> /\ fnInput.post = <<>>
  /\ Len(fnSafe.titles.a) = TITLES_MAX
  /\ Len(fnSafe.tags.a) = TAGS_MAX
  /\ Len(fnSafe.thumbnails.a) = THUMBNAILS_MAX

(* C5: a text that parses strictly gives that value; otherwise a text      *)
(* that is a valid JSON object between prose or fencing of any kind gives  *)
(* that object.                                                            *)
C5_FindsEmbeddedObject ==
  LET core == JSONParse(fnInput.core)
      direct == JSONParse(FnText(fnInput))
  IN (fnPc # "input" /\ core.ok /\ core.val.t = "obj")
       => IF direct.ok THEN fnParsed = direct
          ELSE fnParsed.ok /\ fnParsed.val = core.val

----------------------------------------------------------------------------
(* Properties of the upload form, under SpecUI *)

(* C8: an error and a result are never both set. *)
C8_ErrorReplacesResult == ~(error # JNull /\ result # JNull)

Submitting == inflight # NoFetch
Succeeded(outcome) == IsOk(outcome) /\ outcome.json

(* An outcome arrives: neither await of handleAnalyze, that of fetch (111) *)
(* and that of response.json() (117, 121), stays pending for ever.         *)
(* Nothing in handleAnalyze brings this about (it sets no timeout and      *)
(* cannot abort the request); it is what the server and the network do.    *)
AwaitingFetch == inflight.kind = "fetch"
AwaitingBody == inflight.kind = "json"
OutcomeArrives == []<>(~AwaitingFetch) /\ []<>(~AwaitingBody)

(* C9: a submission with a video sets isLoading and clears result and      *)
(* error as the request goes out; isLoading stays set while the request is *)
(* in flight; in every outcome (a 200 response, a non-success status with  *)
(* or without a readable error body, a rejected fetch or a body that does  *)
(* not parse) isLoading is cleared, with the result set on success and an  *)
(* error string otherwise; and provided an outcome arrives, every          *)
(* submission ends so.                                                     *)
C9_SubmissionLifecycle ==
  /\ [][(~Submitting /\ Submitting')
          => (isLoading' /\ result' = JNull /\ error' = JNull /\ videoFile # JNull
              /\ inflight'.video = videoFile)]_vars
  /\ [](Submitting => isLoading /\ result = JNull)
  /\ [][(Submitting /\ ~Submitting')
          => /\ ~isLoading'
             /\ IF Succeeded(settled')
                  THEN result' = settled'.body /\ result' # JNull
                  ELSE error' # JNull /\ error'.s \in STRING /\ result' = JNull]_vars
  /\ (OutcomeArrives => (Submitting ~> (~Submitting /\ ~isLoading)))

C9_Witness ==
  /\ ~Submitting
  /\ ~isLoading
  /\ settled # NoFetch
  /\ settled.kind = "response"
  /\ settled.status = 500
  /\ ~settled.json
  /\ error = Msg(AnalysisFailed)
  /\ result = JNull

====
